---- MODULE Spec2Model ----
(***************************************************************************)
(* Merak/utils/checkpoint.py: the checkpoint protocol of a distributed     *)
(* training job.  One process per rank; every rank runs save_checkpoint    *)
(* and load_checkpoint, synchronised by torch.distributed barriers and a   *)
(* MAX all_reduce.  The file system holds the shard files and the tracker  *)
(* file latest_checkpointed_iteration.txt.                                 *)
(*                                                                         *)
(* Strings are sequences of tokens: a digit or a single character is a     *)
(* token of its own, a literal of the source that holds no digit is one    *)
(* token.  Python's None is the empty tuple << >>, a value v that may be   *)
(* None is << v >>.                                                        *)
(***************************************************************************)
EXTENDS Integers, Sequences, FiniteSets, TLC

\* ------------------------------------------------------------------ bounds
\* number of processes of the job (world size)
NumRanks == 2
\* save_checkpoint is called with an iteration in 0..MaxIter
MaxIter == 1
\* the tracker files a job finds at start hold iterations up to MaxTracked
MaxTracked == 2
\* the job makes at most MaxCalls checkpoint calls
MaxCalls == 2

Ranks == 0 .. (NumRanks - 1)
Iterations == 0 .. MaxIter
\* save_checkpoint is called in one of two epochs
Epochs == {0, 1}
\* how far the training state handed to a call has got: the freshly built
\* objects, or the state reached at an iteration of an epoch
FreshProgress == << "fresh" >>
ProgressAt(iteration, epoch) == << "trained", iteration, epoch >>

\* ---------------------------------------------------------------- topology
\* the (tensor, pipeline, data) parallel sizes a job of NumRanks processes
\* can have
Topologies ==
    { t \in [tp : 1 .. NumRanks, pp : 1 .. NumRanks, dp : 1 .. NumRanks] :
        t.tp * t.pp * t.dp = NumRanks }

\* mpu.get_tensor_model_parallel_rank / get_model_parallel_rank
TensorRank(t, r) == r % t.tp
\* mpu.get_model_parallel_rank: the rank inside the tensor-parallel group
ModelParallelRank(t, r) == TensorRank(t, r)
\* mpu.get_pipe_parallel_rank
PipeRank(t, r) == (r \div t.tp) % t.pp
\* mpu.get_data_parallel_rank
DataRank(t, r) == r \div (t.tp * t.pp)
\* torch.distributed.is_initialized(): the job is a distributed run
IsInitialized == TRUE

\* ----------------------------------------------------------------- strings
DigitChars == << "0", "1", "2", "3", "4", "5", "6", "7", "8", "9" >>
IsDigit(c) == \E d \in 1 .. 10 : DigitChars[d] = c
DigitVal(c) == (CHOOSE d \in 1 .. 10 : DigitChars[d] = c) - 1
IsSpace(c) == c \in {" ", "\n", "\t"}

\* str(n) of a non-negative int
RECURSIVE Str(_)
Str(n) ==
    IF n < 10 THEN << DigitChars[n + 1] >>
    ELSE Str(n \div 10) \o << DigitChars[(n % 10) + 1] >>

\* '{:0Wd}'.format(n) of a non-negative int: zero-padded to at least W digits
RECURSIVE ZeroPad(_, _)
ZeroPad(s, w) == IF Len(s) >= w THEN s ELSE ZeroPad(<< "0" >> \o s, w)
Format07d(n) == ZeroPad(Str(n), 7)
Format02d(n) == ZeroPad(Str(n), 2)
Format03d(n) == ZeroPad(Str(n), 3)

\* str.strip()
RECURSIVE LStrip(_)
LStrip(s) == IF s # << >> /\ IsSpace(Head(s)) THEN LStrip(Tail(s)) ELSE s
RECURSIVE RStrip(_)
RStrip(s) ==
    IF s # << >> /\ IsSpace(s[Len(s)]) THEN RStrip(SubSeq(s, 1, Len(s) - 1))
    ELSE s
Strip(s) == LStrip(RStrip(s))

\* the digits of an int literal: digit ('_'? digit)*
RECURSIVE IsDigits(_)
IsDigits(s) ==
    /\ s # << >>
    /\ IsDigit(Head(s))
    /\ \/ Len(s) = 1
       \/ IsDigits(Tail(s))
       \/ Len(s) >= 3 /\ s[2] = "_" /\ IsDigits(Tail(Tail(s)))
RECURSIVE DigitsVal(_, _)
DigitsVal(s, acc) ==
    IF s = << >> THEN acc
    ELSE IF Head(s) = "_" THEN DigitsVal(Tail(s), acc)
    ELSE DigitsVal(Tail(s), 10 * acc + DigitVal(Head(s)))

\* int(s): [ok |-> FALSE] is ValueError
ParseInt(s0) ==
    LET s == Strip(s0)
        signed == s # << >> /\ Head(s) \in {"+", "-"}
        body == IF signed THEN Tail(s) ELSE s
    IN  IF IsDigits(body)
        THEN [ok |-> TRUE,
              val |-> IF signed /\ Head(s) = "-" THEN 0 - DigitsVal(body, 0)
                      ELSE DigitsVal(body, 0)]
        ELSE [ok |-> FALSE, val |-> 0]

ReleaseText == << "r", "e", "l", "e", "a", "s", "e" >>

\* ------------------------------------------------------------------- paths
\* os.path.join: a path is the sequence of its components
Join3(a, b, c) == << a, b, c >>
Join4(a, b, c, d) == << a, b, c, d >>

\* args.output_dir + '/ckpt', which is also args.resume_from_checkpoint
CkptRoot == << "ckpt" >>

PipeSizeIsOne(t) == t.pp = 1

\* (mutant: the pipeline rank is left out of the path)
get_checkpoint_name_no_pipe(t, r, checkpoints_path, iteration, release, complete) ==
    LET directory == IF release THEN << "release" >>
                     ELSE << "iter_" >> \o Format07d(iteration)
    IN  IF complete
        THEN Join3(checkpoints_path,
                   << "iter_" >> \o Format07d(iteration) \o << "_mp_rank_" >>
                       \o Format02d(TensorRank(t, r)),
                   << "complete_model_optim.pt" >>)
        ELSE Join4(checkpoints_path, directory,
                   << "mp_rank_" >> \o Format02d(TensorRank(t, r)),
                   << "model_optim_rng.pt" >>)
get_checkpoint_name(t, r, checkpoints_path, iteration, release, complete) ==
    LET directory == IF release THEN << "release" >>
                     ELSE << "iter_" >> \o Format07d(iteration)
    IN  IF PipeSizeIsOne(t)
        THEN IF complete
             THEN Join3(checkpoints_path,
                        << "iter_" >> \o Format07d(iteration) \o << "_mp_rank_" >>
                            \o Format02d(TensorRank(t, r)),
                        << "complete_model_optim.pt" >>)
             ELSE Join4(checkpoints_path, directory,
                        << "mp_rank_" >> \o Format02d(TensorRank(t, r)),
                        << "model_optim_rng.pt" >>)
        ELSE IF complete
             THEN Join4(checkpoints_path, directory,
                        << "iter_" >> \o Format07d(iteration) \o << "_mp_rank_" >>
                            \o Format02d(ModelParallelRank(t, r)) \o << "_pp_rank_" >>
                            \o Format03d(PipeRank(t, r)),
                        << "complete_model_optim.pt" >>)
             ELSE Join4(checkpoints_path, directory,
                        << "mp_rank_" >> \o Format02d(ModelParallelRank(t, r))
                            \o << "_pp_rank_" >> \o Format03d(PipeRank(t, r)),
                        << "model_optim_rng.pt" >>)

get_checkpoint_tracker_filename(checkpoints_path) ==
    << checkpoints_path, << "latest_checkpointed_iteration.txt" >> >>

\* ------------------------------------------------------------- file system
\* a file that torch.save has opened and not finished holds a partial blob
PartialFile == [kind |-> "partial"]
BlobFile(b) == [kind |-> "blob", data |-> b]
\* the tracker file as one rank sees it
NoTracker == [exists |-> FALSE]
TrackerFile(text) == [exists |-> TRUE, text |-> text]

\* ---------------------------------------------------------- training state
\* the sub-states a rank holds at progress g; ranks of different tensor or
\* pipeline coordinates hold different shards
RngKeys == {"random_rng_state", "np_rng_state", "torch_rng_state",
            "cuda_rng_state"}
SubState(key, t, r, g) == << key, TensorRank(t, r), PipeRank(t, r), g >>
LiveState(t, r, g, emptyTracker) ==
    [k \in {"model", "optimizer", "lr_scheduler"} \cup RngKeys
        |-> SubState(k, t, r, g)]
    @@ [k \in {"rng_tracker_states"}
        |-> IF emptyTracker THEN << >>
            ELSE << SubState("rng_tracker_states", t, r, g) >>]
\* the run configuration's counters: 0 and 0 in a fresh run, and two values
\* that tell the two counters and the iterations apart once trained
FreshArgs == [consumed_train_samples |-> 0, consumed_valid_samples |-> 0]
ArgsAt(iteration) == [consumed_train_samples |-> 2 * iteration + 1,
                      consumed_valid_samples |-> 2 * iteration + 2]

\* ------------------------------------------------------------------ output
\* print_rank_0(message): the line is shown by process rank 0 only
print_rank_0(r, o, message) == o \cup {[text |-> message, shown |-> (r = 0)]}
\* print(message)
print(r, o, message) == o \cup {[text |-> message, shown |-> TRUE]}

WarnNoTracker == "WARNING: could not find the metadata file"
WarnStartRandom == "will not load any checkpoints and will start from random"
WarnMaxIter == "WARNING: found iteration in the metadata while max iteration is"
ErrInvalidMeta == "ERROR: Invalid metadata file. Exiting"
ErrParseMeta == "AssertionError: error parsing metadata file"
ErrCouldNotLoad == "could not load the checkpoint"
ErrVersion == "AssertionError: checkpoint versions do not match"
ErrNoEpoch == "KeyError: epoch"
ErrNoIteration == "A metadata file exists but unable to load iteration from checkpoint"
ErrNoModel == "KeyError: model"
ErrNoOptim == "Unable to load optimizer from checkpoint. Specify --no-load-optim or --finetune"
ErrNoRng == "Unable to load rng state from checkpoint. Specify --no-load-rng or --finetune"
MsgNoArgs == "could not find arguments in the checkpoint ..."
MsgLoaded == "successfully loaded checkpoint"

\* ------------------------------------------------------ checkpoint version
\* state_dict['checkpoint_version'] = 3.0
CurrentCheckpointVersion == 3
\* state_dict.get('checkpoint_version', 0)
LegacyCheckpointVersion == 0

\* (mutant: the version is overwritten without the assertion)
set_checkpoint_version_unchecked(version, value) ==
    [ok |-> TRUE, version |-> << value >>]
\* set_checkpoint_version(value) on the process-wide _CHECKPOINT_VERSION:
\* the assertion fails when a version is set and differs
set_checkpoint_version(version, value) ==
    IF version # << >> /\ version[1] # value
    THEN [ok |-> FALSE, version |-> version]
    ELSE [ok |-> TRUE, version |-> << value >>]

\* check_checkpoint_args(checkpoint_args, args): defines _compare and calls
\* it for no field, so that no snapshot is rejected
check_checkpoint_args(checkpoint_args, args) == TRUE

\* ---------------------------------------------------- save_checkpoint blob
\* the state_dict a writer assembles
SaveKeys(o) ==
    {"args", "checkpoint_version", "iteration", "model", "epoch"}
    \cup (IF ~o.no_save_optim /\ o.has_optimizer THEN {"optimizer"} ELSE {})
    \cup (IF ~o.no_save_optim /\ o.has_lr_scheduler THEN {"lr_scheduler"} ELSE {})
    \cup (IF ~o.no_save_rng THEN RngKeys \cup {"rng_tracker_states"} ELSE {})

StateDict(lv, ar, iteration, epoch, o) ==
    [k \in SaveKeys(o) |->
        CASE k = "args" -> ar
          [] k = "checkpoint_version" -> CurrentCheckpointVersion
          [] k = "iteration" -> iteration
          [] k = "epoch" -> epoch
          [] OTHER -> lv[k]]

\* ------------------------------------------------------------ read_metadata
\* (mutant: the assertion asks for iteration > 1)
ParseMetadataOffByOne(text) ==
    LET metastring == Strip(text)
        parsed == ParseInt(metastring)
        iteration == IF parsed.ok THEN parsed.val ELSE 0
        release == ~parsed.ok /\ metastring = ReleaseText
    IN  IF ~parsed.ok /\ ~release
        THEN [fatal |-> TRUE, why |-> ErrInvalidMeta, iteration |-> 0,
              release |-> FALSE]
        ELSE IF ~(iteration > 1 \/ release)
        THEN [fatal |-> TRUE, why |-> ErrParseMeta, iteration |-> iteration,
              release |-> release]
        ELSE [fatal |-> FALSE, why |-> "", iteration |-> iteration,
              release |-> release]

\* the local part of read_metadata: parse the tracker text; fatal is the
\* sys.exit of an invalid file or the failed assertion iteration > 0 or release
ParseMetadata(text) ==
    LET metastring == Strip(text)
        parsed == ParseInt(metastring)
        iteration == IF parsed.ok THEN parsed.val ELSE 0
        release == ~parsed.ok /\ metastring = ReleaseText
    IN  IF ~parsed.ok /\ ~release
        THEN [fatal |-> TRUE, why |-> ErrInvalidMeta, iteration |-> 0,
              release |-> FALSE]
        ELSE IF ~(iteration > 0 \/ release)
        THEN [fatal |-> TRUE, why |-> ErrParseMeta, iteration |-> iteration,
              release |-> release]
        ELSE [fatal |-> FALSE, why |-> "", iteration |-> iteration,
              release |-> release]

\* torch.distributed.all_reduce(op=MAX) over the values the ranks contributed
RECURSIVE MaxOf(_)
MaxOf(S) ==
    LET x == CHOOSE y \in S : TRUE
    IN  IF S = {x} THEN x
        ELSE LET m == MaxOf(S \ {x}) IN IF x > m THEN x ELSE m

\* ---------------------------------------------------- load_checkpoint body
\* The steps of load_checkpoint after read_metadata, each on the state st of
\* the process: [live, version, args, out, fatal, why, iteration, epoch].
\* A step of a process that has exited does nothing.
Fatal(st, why) == [st EXCEPT !.fatal = TRUE, !.why = why]
FatalRank0(r, st, why) ==
    [st EXCEPT !.fatal = TRUE, !.why = why, !.out = print_rank_0(r, st.out, why)]

\* state_dict = torch.load(checkpoint_name): a missing or partial file raises
CanTorchLoad(files, name) == name \in DOMAIN files /\ files[name].kind = "blob"
StepTorchLoad(r, st, files, name) ==
    IF st.fatal THEN st
    ELSE IF ~CanTorchLoad(files, name) THEN FatalRank0(r, st, ErrCouldNotLoad)
    ELSE st

StepVersion(st, sd) ==
    IF st.fatal THEN st
    ELSE LET value == IF "checkpoint_version" \in DOMAIN sd
                      THEN sd["checkpoint_version"] ELSE LegacyCheckpointVersion
             res == set_checkpoint_version(st.version, value)
         IN  IF res.ok THEN [st EXCEPT !.version = res.version]
             ELSE Fatal(st, ErrVersion)

StepEpoch(st, sd) ==
    IF st.fatal THEN st
    ELSE IF "epoch" \notin DOMAIN sd THEN Fatal(st, ErrNoEpoch)
    ELSE [st EXCEPT !.epoch = sd["epoch"]]

\* (mutant: the release mark does not reset the iteration)
StepIterationFinetuneOnly(r, st, sd, release, o) ==
    IF st.fatal THEN st
    ELSE IF o.finetune THEN [st EXCEPT !.iteration = 0]
    ELSE IF "iteration" \in DOMAIN sd
    THEN [st EXCEPT !.iteration = sd["iteration"]]
    ELSE IF "total_iters" \in DOMAIN sd
    THEN [st EXCEPT !.iteration = sd["total_iters"]]
    ELSE FatalRank0(r, st, ErrNoIteration)
StepIteration(r, st, sd, release, o) ==
    IF st.fatal THEN st
    ELSE IF o.finetune \/ release THEN [st EXCEPT !.iteration = 0]
    ELSE IF "iteration" \in DOMAIN sd
    THEN [st EXCEPT !.iteration = sd["iteration"]]
    ELSE IF "total_iters" \in DOMAIN sd
    THEN [st EXCEPT !.iteration = sd["total_iters"]]
    ELSE FatalRank0(r, st, ErrNoIteration)

\* getattr(checkpoint_args, name, 0)
GetAttr0(rec, name) == IF name \in DOMAIN rec THEN rec[name] ELSE 0
StepArgs(r, st, sd) ==
    IF st.fatal THEN st
    ELSE IF "args" \in DOMAIN sd
    THEN IF check_checkpoint_args(sd["args"], st.args)
         THEN [st EXCEPT
                 !.args.consumed_train_samples =
                     GetAttr0(sd["args"], "consumed_train_samples"),
                 !.args.consumed_valid_samples =
                     GetAttr0(sd["args"], "consumed_valid_samples")]
         ELSE Fatal(st, "AssertionError: value from checkpoint is not equal")
    ELSE [st EXCEPT !.out = print_rank_0(r, st.out, MsgNoArgs)]

StepModel(st, sd) ==
    IF st.fatal THEN st
    ELSE IF "model" \notin DOMAIN sd THEN Fatal(st, ErrNoModel)
    ELSE [st EXCEPT !.live.model = sd["model"]]

\* (mutant: the LR scheduler is loaded from the optimizer's key)
StepOptimizerWrongKey(r, st, sd, release, o) ==
    IF st.fatal \/ release \/ o.finetune \/ o.no_load_optim THEN st
    ELSE LET s1 == IF ~o.has_optimizer THEN st
                   ELSE IF "optimizer" \notin DOMAIN sd
                   THEN FatalRank0(r, st, ErrNoOptim)
                   ELSE [st EXCEPT !.live.optimizer = sd["optimizer"]]
         IN  IF s1.fatal \/ ~o.has_lr_scheduler THEN s1
             ELSE IF "optimizer" \notin DOMAIN sd
             THEN FatalRank0(r, s1, ErrNoOptim)
             ELSE [s1 EXCEPT !.live.lr_scheduler = sd["optimizer"]]

\* (mutant: a sub-state the blob lacks is skipped)
StepOptimizerIfPresent(r, st, sd, release, o) ==
    IF st.fatal \/ release \/ o.finetune \/ o.no_load_optim THEN st
    ELSE LET s1 == IF ~o.has_optimizer \/ "optimizer" \notin DOMAIN sd THEN st
                   ELSE [st EXCEPT !.live.optimizer = sd["optimizer"]]
         IN  IF ~o.has_lr_scheduler \/ "lr_scheduler" \notin DOMAIN sd THEN s1
             ELSE [s1 EXCEPT !.live.lr_scheduler = sd["lr_scheduler"]]
\* the try block of the optimizer: a KeyError leaves what was loaded before it
StepOptimizer(r, st, sd, release, o) ==
    IF st.fatal \/ release \/ o.finetune \/ o.no_load_optim THEN st
    ELSE LET s1 == IF ~o.has_optimizer THEN st
                   ELSE IF "optimizer" \notin DOMAIN sd
                   THEN FatalRank0(r, st, ErrNoOptim)
                   ELSE [st EXCEPT !.live.optimizer = sd["optimizer"]]
         IN  IF s1.fatal \/ ~o.has_lr_scheduler THEN s1
             ELSE IF "lr_scheduler" \notin DOMAIN sd
             THEN FatalRank0(r, s1, ErrNoOptim)
             ELSE [s1 EXCEPT !.live.lr_scheduler = sd["lr_scheduler"]]

\* one xxx.set_state(state_dict[key]) of the try block of the RNG states
SetRng(r, st, sd, key) ==
    IF st.fatal THEN st
    ELSE IF key \notin DOMAIN sd THEN FatalRank0(r, st, ErrNoRng)
    ELSE [st EXCEPT !.live[key] = sd[key]]

\* (mutant: an empty rng_tracker_states mapping is accepted)
StepRngAcceptEmpty(r, st, sd, release, o) ==
    IF st.fatal \/ release \/ o.finetune \/ o.no_load_rng THEN st
    ELSE LET s1 == SetRng(r, st, sd, "random_rng_state")
             s2 == SetRng(r, s1, sd, "np_rng_state")
             s3 == SetRng(r, s2, sd, "torch_rng_state")
             s4 == SetRng(r, s3, sd, "cuda_rng_state")
         IN  IF s4.fatal THEN s4
             ELSE IF "rng_tracker_states" \notin DOMAIN sd
             THEN FatalRank0(r, s4, ErrNoRng)
             ELSE [s4 EXCEPT !.live.rng_tracker_states = sd["rng_tracker_states"]]

\* (mutant: the RNG bundle is checked before any source is set)
StepRngAllOrNothing(r, st, sd, release, o) ==
    IF st.fatal \/ release \/ o.finetune \/ o.no_load_rng THEN st
    ELSE IF ~(RngKeys \cup {"rng_tracker_states"} \subseteq DOMAIN sd)
    THEN FatalRank0(r, st, ErrNoRng)
    ELSE IF sd["rng_tracker_states"] = << >> THEN FatalRank0(r, st, ErrNoRng)
    ELSE [st EXCEPT !.live.random_rng_state = sd["random_rng_state"],
                    !.live.np_rng_state = sd["np_rng_state"],
                    !.live.torch_rng_state = sd["torch_rng_state"],
                    !.live.cuda_rng_state = sd["cuda_rng_state"],
                    !.live.rng_tracker_states = sd["rng_tracker_states"]]
StepRng(r, st, sd, release, o) ==
    IF st.fatal \/ release \/ o.finetune \/ o.no_load_rng THEN st
    ELSE LET s1 == SetRng(r, st, sd, "random_rng_state")
             s2 == SetRng(r, s1, sd, "np_rng_state")
             s3 == SetRng(r, s2, sd, "torch_rng_state")
             s4 == SetRng(r, s3, sd, "cuda_rng_state")
         IN  IF s4.fatal THEN s4
             ELSE IF "rng_tracker_states" \notin DOMAIN sd
                     \/ sd["rng_tracker_states"] = << >>
             THEN FatalRank0(r, s4, ErrNoRng)
             ELSE [s4 EXCEPT !.live.rng_tracker_states = sd["rng_tracker_states"]]

\* lines 228-314 of load_checkpoint, in the order of the source
LoadBody(t, r, st0, files, iteration, release, o) ==
    LET name == get_checkpoint_name(t, r, CkptRoot, iteration, release, FALSE)
        s1 == StepTorchLoad(r, st0, files, name)
        sd == IF s1.fatal THEN << >> ELSE files[name].data
        s2 == StepVersion(s1, sd)
        s3 == StepEpoch(s2, sd)
        s4 == StepIteration(r, s3, sd, release, o)
        s5 == StepArgs(r, s4, sd)
        s6 == StepModel(s5, sd)
        s7 == StepOptimizer(r, s6, sd, release, o)
    IN  StepRng(r, s7, sd, release, o)

\* =================================================================== state
VARIABLES
    topo,      \* the job's parallel sizes [tp, pp, dp]
    tracker,   \* tracker[r]: the tracker file as rank r sees it
    shards,    \* the shard files: path -> PartialFile or BlobFile
    call,      \* the checkpoint call the training loop has issued
    ncalls,    \* how many calls it has issued
    pc,        \* pc[r]: where rank r is in the call
    colls,     \* colls[r]: the collectives rank r has entered in the call
    local,     \* local[r]: << iteration, release >> parsed from r's tracker
    meta,      \* meta[r]: what read_metadata returned on r
    ret,       \* ret[r]: what the call returned on r
    out,       \* out[r]: the lines r has printed or handed to print_rank_0
    why,       \* why[r]: the error that ended process r
    live,      \* live[r]: the model, optimizer, LR and RNG objects of r
    version,   \* version[r]: _CHECKPOINT_VERSION of process r
    args       \* args[r]: the consumed-sample counters of r's args

vars == << topo, tracker, shards, call, ncalls, pc, colls, local, meta, ret,
           out, why, live, version, args >>

\* the options of a call: args.no_save_optim, args.no_save_rng, args.finetune,
\* args.no_load_optim, args.no_load_rng, optimizer is not None,
\* lr_scheduler is not None.  NoOptions: every sub-state is saved and loaded.
NoOptions ==
    [no_save_optim |-> FALSE, no_save_rng |-> FALSE, finetune |-> FALSE,
     no_load_optim |-> FALSE, no_load_rng |-> FALSE,
     has_optimizer |-> TRUE, has_lr_scheduler |-> TRUE]
SaveOptions ==
    { [NoOptions EXCEPT !.no_save_optim = a, !.no_save_rng = b,
                        !.has_optimizer = c, !.has_lr_scheduler = d] :
        a \in BOOLEAN, b \in BOOLEAN, c \in BOOLEAN, d \in BOOLEAN }
LoadOptions ==
    { [NoOptions EXCEPT !.finetune = a, !.no_load_optim = b, !.no_load_rng = c,
                        !.has_optimizer = d, !.has_lr_scheduler = e] :
        a \in BOOLEAN, b \in BOOLEAN, c \in BOOLEAN, d \in BOOLEAN,
        e \in BOOLEAN }

\* call.saved: the iteration, the epoch and the emptiness of the RNG tracker
\* of the last save_checkpoint call, << >> before the first
NoCall == [kind |-> "none", iteration |-> 0, epoch |-> 0, o |-> NoOptions,
           saved |-> << >>]

\* the collectives of rank r's call that every rank has entered
AllEntered(k) == \A q \in Ranks : Len(colls[q]) >= k
Enter(r, kind) == [colls EXCEPT ![r] = Append(@, kind)]

\* (mutant: every rank writes)
IsWriterEveryRank(r) == TRUE
\* Only rank zero of the data parallel writes to the disk
IsWriter(r) == ~IsInitialized \/ DataRank(topo, r) = 0
\* torch.distributed.get_rank() == 0 updates the tracker
IsTrackerWriter(r) == ~IsInitialized \/ r = 0

\* the shard a writer of coordinates (tp, pp) leaves for an iteration when
\* save_checkpoint(iteration, epoch) has completed with every sub-state saved
SavedBlob(t, r, iteration, epoch) ==
    StateDict(LiveState(t, r, ProgressAt(iteration, epoch), FALSE),
              ArgsAt(iteration), iteration, epoch, NoOptions)

\* a release checkpoint installed under the root: the shards of the last
\* iteration of a run, moved to the directory 'release'
ReleaseName(t, r) == get_checkpoint_name(t, r, CkptRoot, 0, TRUE, FALSE)
ReleaseShards(t) ==
    [p \in {ReleaseName(t, r) : r \in Ranks} |->
        LET r == CHOOSE q \in Ranks : ReleaseName(t, q) = p
        IN  BlobFile(SavedBlob(t, r, MaxIter, 0))]

\* the job starts on an empty checkpoint root, or on one that holds a release
\* checkpoint
Init ==
    /\ topo \in Topologies
    /\ \/ /\ tracker = [r \in Ranks |-> NoTracker]
          /\ shards = << >>
       \/ /\ tracker = [r \in Ranks |-> TrackerFile(ReleaseText)]
          /\ shards = ReleaseShards(topo)
    /\ call = NoCall
    /\ ncalls = 0
    /\ pc = [r \in Ranks |-> "idle"]
    /\ colls = [r \in Ranks |-> << >>]
    /\ local = [r \in Ranks |-> << >>]
    /\ meta = [r \in Ranks |-> << >>]
    /\ ret = [r \in Ranks |-> << >>]
    /\ out = [r \in Ranks |-> {}]
    /\ why = [r \in Ranks |-> ""]
    /\ live = [r \in Ranks |-> LiveState(topo, r, FreshProgress, FALSE)]
    /\ version = [r \in Ranks |-> << >>]
    /\ args = [r \in Ranks |-> FreshArgs]

\* ------------------------------------------------------- the training loop
\* Every rank has returned from the last call (or none was made) and the
\* loop calls save_checkpoint / load_checkpoint on every rank with the same
\* arguments.
CanCall == ncalls < MaxCalls /\ \A r \in Ranks : pc[r] \in {"idle", "returned"}

Begin(kind, iteration, epoch, o, saved) ==
    /\ call' = [kind |-> kind, iteration |-> iteration, epoch |-> epoch,
                o |-> o, saved |-> saved]
    /\ ncalls' = ncalls + 1
    /\ pc' = [r \in Ranks |-> "start"]
    /\ colls' = [r \in Ranks |-> << >>]
    /\ local' = [r \in Ranks |-> << >>]
    /\ meta' = [r \in Ranks |-> << >>]
    /\ ret' = [r \in Ranks |-> << >>]
    /\ out' = [r \in Ranks |-> {}]
    /\ UNCHANGED << topo, tracker, shards, why, version >>

\* save_checkpoint(iteration, model, optimizer, lr_scheduler, args, epoch):
\* the objects handed over hold the state the training has reached; the
\* RNG tracker holds states or none
CallSave ==
    /\ CanCall
    /\ \E i \in Iterations, ep \in Epochs, e \in BOOLEAN :
          /\ Begin("save", i, ep, NoOptions, << i, ep, e >>)
          /\ live' = [r \in Ranks |-> LiveState(topo, r, ProgressAt(i, ep), e)]
          /\ args' = [r \in Ranks |-> ArgsAt(i)]

\* load_checkpoint(model, optimizer, lr_scheduler, args): the objects handed
\* over are freshly built
CallLoad ==
    /\ CanCall
    /\ Begin("load", 0, 0, NoOptions, call.saved)
    /\ live' = [r \in Ranks |-> LiveState(topo, r, FreshProgress, FALSE)]
    /\ args' = [r \in Ranks |-> FreshArgs]

\* --------------------------------------------------------- save_checkpoint
WriteFile(files, name, f) ==
    [p \in DOMAIN files \cup {name} |-> IF p = name THEN f ELSE files[p]]

SaveName(r) ==
    get_checkpoint_name(topo, r, CkptRoot, call.iteration, FALSE, FALSE)

\* a writer assembles state_dict, ensure_directory_exists, and torch.save
\* opens the file: until the write is done the file is partial
SaveOpen(r) ==
    /\ call.kind = "save" /\ pc[r] = "start" /\ IsWriter(r)
    /\ shards' = WriteFile(shards, SaveName(r), PartialFile)
    /\ pc' = [pc EXCEPT ![r] = "s_write"]
    /\ UNCHANGED << topo, tracker, call, ncalls, colls, local, meta, ret, out,
                    why, live, version, args >>

\* os.makedirs or the open of torch.save raises: the exception propagates
SaveOpenFail(r) ==
    /\ call.kind = "save" /\ pc[r] = "start" /\ IsWriter(r)
    /\ pc' = [pc EXCEPT ![r] = "fatal"]
    /\ why' = [why EXCEPT ![r] = "OSError: open"]
    /\ UNCHANGED << topo, tracker, shards, call, ncalls, colls, local, meta,
                    ret, out, live, version, args >>

\* torch.save completes, and the writer enters the first barrier
SaveWrite(r) ==
    /\ call.kind = "save" /\ pc[r] = "s_write"
    /\ shards' = WriteFile(shards, SaveName(r),
                    BlobFile(StateDict(live[r], args[r], call.iteration,
                                       call.epoch, call.o)))
    /\ pc' = [pc EXCEPT ![r] = "s_bar1"]
    /\ colls' = IF IsInitialized THEN Enter(r, "barrier") ELSE colls
    /\ UNCHANGED << topo, tracker, call, ncalls, local, meta, ret, out, why,
                    live, version, args >>

\* torch.save raises part-way: the partial file stays
SaveWriteFail(r) ==
    /\ call.kind = "save" /\ pc[r] = "s_write"
    /\ pc' = [pc EXCEPT ![r] = "fatal"]
    /\ why' = [why EXCEPT ![r] = "OSError: write"]
    /\ UNCHANGED << topo, tracker, shards, call, ncalls, colls, local, meta,
                    ret, out, live, version, args >>

\* a rank that is no writer goes to the first barrier at once
SaveSkip(r) ==
    /\ call.kind = "save" /\ pc[r] = "start" /\ ~IsWriter(r)
    /\ pc' = [pc EXCEPT ![r] = "s_bar1"]
    /\ colls' = IF IsInitialized THEN Enter(r, "barrier") ELSE colls
    /\ UNCHANGED << topo, tracker, shards, call, ncalls, local, meta, ret, out,
                    why, live, version, args >>

\* the rank leaves the first barrier once every rank has entered it; a rank
\* that does not update the tracker enters the second barrier
Barrier1Passed == ~IsInitialized \/ AllEntered(1)
SaveBarrier1(r) ==
    /\ call.kind = "save" /\ pc[r] = "s_bar1"
    /\ Barrier1Passed
    /\ IF IsTrackerWriter(r)
       THEN /\ pc' = [pc EXCEPT ![r] = "s_track"]
            /\ UNCHANGED colls
       ELSE /\ pc' = [pc EXCEPT ![r] = "s_bar2"]
            /\ colls' = IF IsInitialized THEN Enter(r, "barrier") ELSE colls
    /\ UNCHANGED << topo, tracker, shards, call, ncalls, local, meta, ret, out,
                    why, live, version, args >>

\* open(tracker_filename, 'w') truncates the file
TrackerOpen(r) ==
    /\ call.kind = "save" /\ pc[r] = "s_track"
    /\ tracker' = [q \in Ranks |-> TrackerFile(<< >>)]
    /\ pc' = [pc EXCEPT ![r] = "s_trackw"]
    /\ UNCHANGED << topo, shards, call, ncalls, colls, local, meta, ret, out,
                    why, live, version, args >>

\* f.write(str(iteration)), the file is closed, and the rank enters the
\* second barrier
TrackerWrite(r) ==
    /\ call.kind = "save" /\ pc[r] = "s_trackw"
    /\ tracker' = [q \in Ranks |-> TrackerFile(Str(call.iteration))]
    /\ pc' = [pc EXCEPT ![r] = "s_bar2"]
    /\ colls' = IF IsInitialized THEN Enter(r, "barrier") ELSE colls
    /\ UNCHANGED << topo, shards, call, ncalls, local, meta, ret, out, why,
                    live, version, args >>

\* the process dies between the truncation and the write
TrackerWriteFail(r) ==
    /\ call.kind = "save" /\ pc[r] = "s_trackw"
    /\ pc' = [pc EXCEPT ![r] = "fatal"]
    /\ why' = [why EXCEPT ![r] = "OSError: write"]
    /\ UNCHANGED << topo, tracker, shards, call, ncalls, colls, local, meta,
                    ret, out, live, version, args >>

\* the rank leaves the second barrier and save_checkpoint returns (None)
\* (mutant: the second barrier is dropped)
Barrier2Dropped == TRUE
Barrier2Passed == ~IsInitialized \/ AllEntered(2)
SaveReturn(r) ==
    /\ call.kind = "save" /\ pc[r] = "s_bar2"
    /\ Barrier2Passed
    /\ pc' = [pc EXCEPT ![r] = "returned"]
    /\ UNCHANGED << topo, tracker, shards, call, ncalls, colls, local, meta,
                    ret, out, why, live, version, args >>

\* --------------------------------------------------------- load_checkpoint
\* (mutant: the fresh start is silent)
LoadFreshSilent(r) ==
    /\ call.kind = "load" /\ pc[r] = "start"
    /\ ~tracker[r].exists
    /\ ret' = [ret EXCEPT ![r] = << 0 >>]
    /\ pc' = [pc EXCEPT ![r] = "returned"]
    /\ UNCHANGED << topo, tracker, shards, call, ncalls, colls, local, meta,
                    out, why, live, version, args >>

\* no tracker file: two warnings, and return 0
LoadFresh(r) ==
    /\ call.kind = "load" /\ pc[r] = "start"
    /\ ~tracker[r].exists
    /\ out' = [out EXCEPT ![r] =
                 print_rank_0(r, print_rank_0(r, @, WarnNoTracker),
                              WarnStartRandom)]
    /\ ret' = [ret EXCEPT ![r] = << 0 >>]
    /\ pc' = [pc EXCEPT ![r] = "returned"]
    /\ UNCHANGED << topo, tracker, shards, call, ncalls, colls, local, meta,
                    why, live, version, args >>

\* read_metadata up to the all_reduce: parse the tracker, exit on a bad one,
\* contribute the local iteration
LoadReadMeta(r) ==
    /\ call.kind = "load" /\ pc[r] = "start"
    /\ tracker[r].exists
    /\ LET m == ParseMetadata(tracker[r].text)
       IN  IF m.fatal
           THEN /\ pc' = [pc EXCEPT ![r] = "fatal"]
                /\ why' = [why EXCEPT ![r] = m.why]
                /\ out' = [out EXCEPT ![r] =
                             IF m.why = ErrInvalidMeta
                             THEN print_rank_0(r, @, ErrInvalidMeta) ELSE @]
                /\ UNCHANGED << colls, local >>
           ELSE /\ pc' = [pc EXCEPT ![r] = "l_reduce"]
                /\ local' = [local EXCEPT ![r] = << m.iteration, m.release >>]
                /\ colls' = Enter(r, "all_reduce")
                /\ UNCHANGED << why, out >>
    /\ UNCHANGED << topo, tracker, shards, call, ncalls, meta, ret, live,
                    version, args >>

\* (mutant: the iteration of rank 0 is broadcast instead of the maximum)
RankZeroIteration == local[0][1]
\* what read_metadata returns on r once the all_reduce is done
MaxIteration == MaxOf({local[q][1] : q \in Ranks})
ReadMetadataResult(r) == << MaxIteration, local[r][2] >>

\* the all_reduce completes, read_metadata warns and returns, and the rank
\* restores from its shard; then it enters the barrier, or has exited
LoadRestore(r) ==
    /\ call.kind = "load" /\ pc[r] = "l_reduce"
    /\ AllEntered(1)
    /\ LET m == ReadMetadataResult(r)
           o0 == IF local[r][1] # m[1] THEN print(r, out[r], WarnMaxIter)
                 ELSE out[r]
           st0 == [live |-> live[r], version |-> version[r], args |-> args[r],
                   out |-> o0, fatal |-> FALSE, why |-> "",
                   iteration |-> m[1], epoch |-> 0]
           st == LoadBody(topo, r, st0, shards, m[1], m[2], call.o)
       IN  /\ meta' = [meta EXCEPT ![r] = m]
           /\ live' = [live EXCEPT ![r] = st.live]
           /\ version' = [version EXCEPT ![r] = st.version]
           /\ args' = [args EXCEPT ![r] = st.args]
           /\ out' = [out EXCEPT ![r] = st.out]
           /\ why' = [why EXCEPT ![r] = st.why]
           /\ IF st.fatal
              THEN /\ pc' = [pc EXCEPT ![r] = "fatal"]
                   /\ UNCHANGED << ret, colls >>
              ELSE /\ pc' = [pc EXCEPT ![r] = "l_bar"]
                   /\ ret' = [ret EXCEPT ![r] = << st.iteration, st.epoch >>]
                   /\ colls' = IF IsInitialized THEN Enter(r, "barrier")
                               ELSE colls
    /\ UNCHANGED << topo, tracker, shards, call, ncalls, local >>

\* the rank leaves the barrier and load_checkpoint returns (iteration, epoch)
LoadBarrierPassed == ~IsInitialized \/ AllEntered(2)
LoadReturn(r) ==
    /\ call.kind = "load" /\ pc[r] = "l_bar"
    /\ LoadBarrierPassed
    /\ out' = [out EXCEPT ![r] = print_rank_0(r, @, MsgLoaded)]
    /\ pc' = [pc EXCEPT ![r] = "returned"]
    /\ UNCHANGED << topo, tracker, shards, call, ncalls, colls, local, meta,
                    ret, why, live, version, args >>

\* ------------------------------------------------------------------- specs
Next ==
    \/ CallSave
    \/ CallLoad
    \/ \E r \in Ranks :
        \/ SaveOpen(r) \/ SaveOpenFail(r) \/ SaveWrite(r) \/ SaveWriteFail(r)
        \/ SaveSkip(r) \/ SaveBarrier1(r)
        \/ TrackerOpen(r) \/ TrackerWrite(r) \/ TrackerWriteFail(r)
        \/ SaveReturn(r)
        \/ LoadFresh(r) \/ LoadReadMeta(r) \/ LoadRestore(r) \/ LoadReturn(r)

Spec == Init /\ [][Next]_vars

\* ---------------------------------------------- one load_checkpoint call
\* The ranks of a job call load_checkpoint on a root where earlier runs left
\* the shards of every iteration and a release checkpoint, and where each
\* rank sees a tracker file of its own: none, an iteration, 'release', or
\* text that is neither.
TrackerTexts ==
    {Str(n) : n \in 0 .. MaxTracked}
    \cup {ReleaseText, << >>, << "x" >>, Str(MaxTracked) \o << "\n" >>}
TrackerViews == {NoTracker} \cup {TrackerFile(x) : x \in TrackerTexts}

IterName(t, r, n) == get_checkpoint_name(t, r, CkptRoot, n, FALSE, FALSE)
AllShards(t) ==
    [p \in {ReleaseName(t, r) : r \in Ranks}
            \cup {IterName(t, r, n) : r \in Ranks, n \in 1 .. MaxTracked} |->
        IF \E r \in Ranks : ReleaseName(t, r) = p
        THEN ReleaseShards(t)[p]
        ELSE LET c == CHOOSE c \in Ranks \X (1 .. MaxTracked) :
                         IterName(t, c[1], c[2]) = p
             IN  BlobFile(SavedBlob(t, c[1], c[2], 1))]

InitMeta ==
    /\ topo \in Topologies
    /\ tracker \in [Ranks -> TrackerViews]
    /\ shards = AllShards(topo)
    /\ call = [NoCall EXCEPT !.kind = "load"]
    /\ ncalls = MaxCalls
    /\ pc = [r \in Ranks |-> "start"]
    /\ colls = [r \in Ranks |-> << >>]
    /\ local = [r \in Ranks |-> << >>]
    /\ meta = [r \in Ranks |-> << >>]
    /\ ret = [r \in Ranks |-> << >>]
    /\ out = [r \in Ranks |-> {}]
    /\ why = [r \in Ranks |-> ""]
    /\ live = [r \in Ranks |-> LiveState(topo, r, FreshProgress, FALSE)]
    /\ version = [r \in Ranks |-> << >>]
    /\ args = [r \in Ranks |-> FreshArgs]

NextLoad ==
    \E r \in Ranks :
        LoadFresh(r) \/ LoadReadMeta(r) \/ LoadRestore(r) \/ LoadReturn(r)

SpecMeta == InitMeta /\ [][NextLoad]_vars

\* ================================================================== claims
Writers == {r \in Ranks : IsWriter(r)}
ShardComplete(name) == name \in DOMAIN shards /\ shards[name].kind = "blob"
\* the iteration a tracker file names, if it names one
NamesIteration(f, n) == f.exists /\ ParseInt(f.text).ok /\ ParseInt(f.text).val = n

\* C1: whenever the tracker file names an iteration N, every
\* data-parallel-rank-0 writer's shard file of iteration N is there and
\* completely written.
C1_TrackerNamesOnlyCompleteShards ==
    \A r \in Ranks, n \in Iterations :
        NamesIteration(tracker[r], n) =>
            \A w \in Writers : ShardComplete(IterName(topo, w, n))

\* C7: during save_checkpoint(iteration = N) rank 0 writes the tracker only
\* after every rank has entered the first barrier, and once any rank has
\* returned rank 0 has written N to the tracker.
C7_TrackerWrittenBeforeAnyReturn ==
    call.kind = "save" =>
        /\ (pc[0] \in {"s_trackw", "s_bar2", "returned"}
              => \A q \in Ranks : Len(colls[q]) >= 1)
        /\ ((\E r \in Ranks : pc[r] = "returned")
              => /\ pc[0] \in {"s_bar2", "returned"}
                 /\ tracker[0] = TrackerFile(Str(call.iteration)))
\* a rank other than rank 0 has returned from a save while rank 0 has not left
\* the second barrier yet
C7_Witness ==
    /\ call.kind = "save"
    /\ \E r \in Ranks : r # 0 /\ pc[r] = "returned" /\ pc[0] = "s_bar2"

Texts(o) == {m.text : m \in o}
Shown(o) == {m.text : m \in {x \in o : x.shown}}
MetaErrors == {ErrInvalidMeta, ErrParseMeta}

\* C2: when every rank's tracker file holds a positive integer or 'release',
\* all ranks get the same (iteration, release) pair from read_metadata, and
\* ranks that complete load_checkpoint return the same iteration.
C2_RanksConverge ==
    (\A q \in Ranks :
        tracker[q] \in {TrackerFile(ReleaseText)}
                       \cup {TrackerFile(Str(n)) : n \in 1 .. MaxTracked})
    => \A r \in Ranks, q \in Ranks :
        /\ (meta[r] # << >> /\ meta[q] # << >>) => meta[r] = meta[q]
        /\ (pc[r] = "returned" /\ pc[q] = "returned") => ret[r][1] = ret[q][1]

\* C3: the iteration read_metadata returns on a rank is the maximum of the
\* iterations the ranks read from their tracker files (0 for 'release'), and
\* the rank prints the warning exactly when its own iteration is not that
\* maximum.
C3_MaxAndWarning ==
    \A r \in Ranks :
        /\ local[r] # << >> =>
              /\ \A n \in 1 .. MaxTracked :
                    tracker[r] = TrackerFile(Str(n)) => local[r][1] = n
              /\ tracker[r] = TrackerFile(ReleaseText) => local[r][1] = 0
        /\ meta[r] # << >> =>
              /\ \A q \in Ranks : local[q] # << >> /\ meta[r][1] >= local[q][1]
              /\ \E q \in Ranks : meta[r][1] = local[q][1]
              /\ (WarnMaxIter \in Shown(out[r])) <=> (local[r][1] # meta[r][1])
\* one rank read a smaller iteration, got the maximum and warned; another read
\* the maximum and did not warn
C3_Witness ==
    \E r \in Ranks, q \in Ranks :
        /\ meta[r] # << >> /\ meta[q] # << >>
        /\ local[r][1] >= 1 /\ local[r][1] < local[q][1]
        /\ meta[r][1] = local[q][1]
        /\ WarnMaxIter \in Shown(out[r])
        /\ WarnMaxIter \notin Shown(out[q])

\* C4 as claimed: after save_checkpoint has written any iteration N >= 0 to
\* the tracker file, read_metadata reads it back on every rank as
\* (N, release = False) and does not exit on it.
C4_RoundTripAnyIteration ==
    \A r \in Ranks, n \in Iterations :
        (call.kind = "load" /\ tracker[r] = TrackerFile(Str(n))) =>
            /\ why[r] \notin MetaErrors
            /\ pc[r] # "start" => local[r] = << n, FALSE >>
            /\ meta[r] # << >> => meta[r] = << n, FALSE >>

\* C4 as amended: the same for every N >= 1; and a tracker file that holds
\* 'release' is read without exit, with release = True.
C4_RoundTripPositiveIteration ==
    \A r \in Ranks :
        call.kind = "load" =>
            /\ \A n \in Iterations \ {0} :
                  tracker[r] = TrackerFile(Str(n)) =>
                      /\ why[r] \notin MetaErrors
                      /\ pc[r] # "start" => local[r] = << n, FALSE >>
                      /\ meta[r] # << >> => meta[r] = << n, FALSE >>
            /\ tracker[r] = TrackerFile(ReleaseText) =>
                  /\ why[r] \notin MetaErrors
                  /\ pc[r] # "start" => local[r] # << >> /\ local[r][2]
                  /\ meta[r] # << >> => meta[r][2]
\* save_checkpoint wrote a positive iteration and read_metadata has returned it
C4_Witness ==
    \E r \in Ranks, n \in Iterations \ {0} :
        /\ call.kind = "load" /\ call.saved # << >> /\ call.saved[1] = n
        /\ tracker[r] = TrackerFile(Str(n))
        /\ meta[r] = << n, FALSE >>

\* the state a rank of coordinates (tp, pp) handed to the last save
SavedLive(r) ==
    LiveState(topo, r, ProgressAt(call.saved[1], call.saved[2]), call.saved[3])
RoundTrip(r) ==
    /\ pc[r] # "fatal"
    /\ pc[r] = "returned" =>
          /\ ret[r] = << call.saved[1], call.saved[2] >>
          /\ live[r] = SavedLive(r)

\* C5 as claimed: a load_checkpoint that follows a save_checkpoint(iteration,
\* epoch) with every sub-state saved and loaded exits on no rank, returns
\* (iteration, epoch), and leaves model, optimizer, LR schedule and every RNG
\* source equal to what was saved, for any iteration >= 0 and any RNG bundle.
C5_RoundTripAnyState ==
    (call.kind = "load" /\ call.saved # << >>) => \A r \in Ranks : RoundTrip(r)

\* C5 as amended: the same for an iteration >= 1 and an RNG bundle whose
\* rng_tracker_states mapping is not empty.
C5_RoundTripPositiveIteration ==
    (call.kind = "load" /\ call.saved # << >>
        /\ call.saved[1] >= 1 /\ ~call.saved[3])
    => \A r \in Ranks : RoundTrip(r)
\* every rank has returned from the load that follows such a save
C5_Witness ==
    /\ call.kind = "load" /\ call.saved # << >>
    /\ call.saved[1] >= 1 /\ ~call.saved[3]
    /\ \A r \in Ranks : pc[r] = "returned" /\ Len(ret[r]) = 2

\* a rank is waiting in a collective that not every rank has entered
Waiting(q) ==
    /\ pc[q] \in {"s_bar1", "s_bar2", "l_reduce", "l_bar"}
    /\ ~AllEntered(Len(colls[q]))
ExpectedCollectives ==
    IF call.kind = "save" THEN << "barrier", "barrier" >>
    ELSE << "all_reduce", "barrier" >>

\* C6: a rank that has returned from save_checkpoint or load_checkpoint has
\* entered the call's collectives (save: barrier, barrier; load: all_reduce,
\* barrier), whatever it found on disk; none has returned without them while
\* another rank waits in one.
C6_SameCollectives ==
    \A r \in Ranks :
        (pc[r] = "returned" /\ \E q \in Ranks : Waiting(q))
            => colls[r] = ExpectedCollectives

\* C8: when a rank has returned from load_checkpoint, every rank whose tracker
\* file names a checkpoint has finished its restore steps.
C8_NoReturnBeforeAllRestored ==
    \A r \in Ranks, q \in Ranks :
        (call.kind = "load" /\ pc[r] = "returned"
            /\ tracker[q] \in {TrackerFile(Str(n)) : n \in 1 .. MaxTracked})
            => pc[q] \in {"l_bar", "returned", "fatal"}

\* C9: what load_checkpoint returns is a pair (iteration, epoch), on the
\* fresh start too.
C9_ReturnsPair ==
    \A r \in Ranks :
        (call.kind = "load" /\ pc[r] = "returned") => Len(ret[r]) = 2

\* C10: the step of load_checkpoint on a rank that finds no tracker file
\* returns 0 with no error, hands the warning to print_rank_0, and leaves
\* the model, optimizer, LR scheduler, RNG sources, args and the checkpoint
\* version of the process as they were.
C10_FreshStart ==
    [][\A r \in Ranks :
        (call.kind = "load" /\ pc[r] = "start" /\ ~tracker[r].exists
            /\ pc'[r] # pc[r])
        => /\ pc'[r] = "returned"
           /\ ret'[r] = << 0 >>
           /\ why'[r] = ""
           /\ WarnNoTracker \in Texts(out'[r])
           /\ r = 0 => WarnNoTracker \in Shown(out'[r])
           /\ live'[r] = live[r]
           /\ args'[r] = args[r]
           /\ version'[r] = version[r]
           /\ call' = call]_vars
\* a rank has returned the fresh start
C10_Witness ==
    \E r \in Ranks :
        call.kind = "load" /\ pc[r] = "returned" /\ ret[r] = << 0 >>

\* ============================================ one load of a given shard file
\* A data-parallel job calls load_checkpoint on a root whose tracker names
\* iteration 1 or 'release'; the shard file is what a save_checkpoint left
\* under its options, or such a blob with one entry changed: an older writer,
\* a hand-copied file.  The load options are any.
BlobTopology == [tp |-> 1, pp |-> 1, dp |-> NumRanks]

\* args carries the attributes of the run; num_layers stands for the
\* attributes that fix the architecture
RunArgs == FreshArgs @@ [num_layers |-> 1]
SnapshotArgs == ArgsAt(MaxTracked) @@ [num_layers |-> 1]

Restrict(f, S) == [k \in S |-> f[k]]
DropKeys ==
    {"args", "checkpoint_version", "iteration", "model", "epoch",
     "rng_tracker_states"} \cup RngKeys
Mods ==
    {"keep", "total_iters", "both_iters", "empty_tracker", "bare_args",
     "other_args"} \cup DropKeys
\* the blob b with one entry changed
Modify(b, m) ==
    CASE m = "keep" -> b
      [] m = "total_iters" ->
            Restrict(b, DOMAIN b \ {"iteration"})
                @@ [total_iters |-> MaxTracked + 1]
      [] m = "both_iters" -> b @@ [total_iters |-> MaxTracked + 1]
      [] m = "empty_tracker" ->
            IF "rng_tracker_states" \in DOMAIN b
            THEN [b EXCEPT !["rng_tracker_states"] = << >>] ELSE b
      [] m = "bare_args" -> [b EXCEPT !["args"] = [num_layers |-> 1]]
      [] m = "other_args" ->
            [b EXCEPT !["args"] = [@ EXCEPT !.num_layers = 2]]
      [] OTHER -> Restrict(b, DOMAIN b \ {m})

\* what save_checkpoint(iteration = MaxTracked, epoch = 1) writes under the
\* save options o
BlobSavedWith(o) ==
    StateDict(LiveState(BlobTopology, 0, ProgressAt(MaxTracked, 1), FALSE),
              SnapshotArgs, MaxTracked, 1, o)
Blobs == {Modify(BlobSavedWith(o), m) : o \in SaveOptions, m \in Mods}

BlobPaths == {IterName(BlobTopology, 0, 1), ReleaseName(BlobTopology, 0)}

InitBlob ==
    /\ topo = BlobTopology
    /\ \E text \in {Str(1), ReleaseText} :
          tracker = [r \in Ranks |-> TrackerFile(text)]
    /\ \E b \in Blobs : shards = [p \in BlobPaths |-> BlobFile(b)]
    /\ \E o \in LoadOptions : call = [NoCall EXCEPT !.kind = "load", !.o = o]
    /\ ncalls = MaxCalls
    /\ pc = [r \in Ranks |-> "start"]
    /\ colls = [r \in Ranks |-> << >>]
    /\ local = [r \in Ranks |-> << >>]
    /\ meta = [r \in Ranks |-> << >>]
    /\ ret = [r \in Ranks |-> << >>]
    /\ out = [r \in Ranks |-> {}]
    /\ why = [r \in Ranks |-> ""]
    /\ live = [r \in Ranks |-> LiveState(topo, r, FreshProgress, FALSE)]
    /\ version = [r \in Ranks |-> << >>]
    /\ args = [r \in Ranks |-> RunArgs]

NextBlob ==
    \E r \in Ranks : LoadReadMeta(r) \/ LoadRestore(r) \/ LoadReturn(r)

SpecBlob == InitBlob /\ [][NextBlob]_vars

\* the blob in the shard file, the release mark of the tracker, and the ranks
\* that are through the restore steps
TheBlob == shards[ReleaseName(topo, 0)].data
IsRelease == tracker[0] = TrackerFile(ReleaseText)
Restored(r) == call.kind = "load" /\ pc[r] \in {"l_bar", "returned"}
Exited(r) == call.kind = "load" /\ pc[r] = "fatal"

\* C11: a load that gets through its restore steps returns iteration 0 when
\* finetune is set or the tracker holds 'release', whatever 'iteration' or
\* 'total_iters' the blob holds or lacks; otherwise it returns the blob's
\* 'iteration', or 'total_iters' when 'iteration' is absent, and it does not
\* get through when both are absent.
C11_IterationOverride ==
    \A r \in Ranks :
        /\ Restored(r) =>
              ret[r][1] =
                  IF call.o.finetune \/ IsRelease THEN 0
                  ELSE IF "iteration" \in DOMAIN TheBlob
                  THEN TheBlob["iteration"]
                  ELSE IF "total_iters" \in DOMAIN TheBlob
                  THEN TheBlob["total_iters"]
                  ELSE 0 - 1
        /\ (~call.o.finetune /\ ~IsRelease
                /\ DOMAIN TheBlob \cap {"iteration", "total_iters"} = {})
              => (pc[r] \in {"start", "l_reduce", "fatal"}
                    /\ (pc[r] = "fatal" => why[r] # ""))
\* a release checkpoint whose blob holds a positive iteration has been loaded
\* and 0 returned
C11_Witness ==
    \E r \in Ranks :
        /\ pc[r] = "returned" /\ IsRelease /\ ~call.o.finetune
        /\ "iteration" \in DOMAIN TheBlob /\ TheBlob["iteration"] > 0
        /\ ret[r][1] = 0

\* the blobs save_checkpoint writes with no_save_optim set
NoOptimBlobs == {BlobSavedWith(o) : o \in {x \in SaveOptions : x.no_save_optim}}
OptimLoadingOn == ~IsRelease /\ ~call.o.finetune /\ ~call.o.no_load_optim
ExitsWithNoOptim(r) ==
    /\ pc[r] \in {"start", "l_reduce", "fatal"}
    /\ pc[r] = "fatal" => why[r] = ErrNoOptim /\ ErrNoOptim \in Texts(out[r])

\* C12 as claimed: a blob saved with no_save_optim holds neither 'optimizer'
\* nor 'lr_scheduler', and a load of it with optimizer loading on exits with
\* the remediation message whatever optimizer and lr_scheduler are passed.
C12_NoOptimAlwaysFatal ==
    /\ \A b \in NoOptimBlobs : DOMAIN b \cap {"optimizer", "lr_scheduler"} = {}
    /\ \A r \in Ranks :
          (TheBlob \in NoOptimBlobs /\ OptimLoadingOn) => ExitsWithNoOptim(r)

\* C12 as amended: the same when an optimizer or an lr_scheduler is passed to
\* load_checkpoint.
C12_NoOptimFatalWhenPassed ==
    /\ \A b \in NoOptimBlobs : DOMAIN b \cap {"optimizer", "lr_scheduler"} = {}
    /\ \A r \in Ranks :
          (TheBlob \in NoOptimBlobs /\ OptimLoadingOn
              /\ (call.o.has_optimizer \/ call.o.has_lr_scheduler))
          => ExitsWithNoOptim(r)
\* a load that was passed an lr_scheduler and no optimizer has exited on such
\* a blob
C12_Witness ==
    \E r \in Ranks :
        /\ TheBlob \in NoOptimBlobs /\ OptimLoadingOn
        /\ ~call.o.has_optimizer /\ call.o.has_lr_scheduler
        /\ pc[r] = "fatal" /\ why[r] = ErrNoOptim

\* ================================================ the checkpoint version
\* The processes of a data-parallel job call set_checkpoint_version and
\* load_checkpoint in any order; the shard file holds the current version
\* tag or none.
VersionValues == {LegacyCheckpointVersion, CurrentCheckpointVersion}
VersionBlobs ==
    {BlobSavedWith(NoOptions),
     Modify(BlobSavedWith(NoOptions), "checkpoint_version")}

\* set_checkpoint_version(value), called by process r between two checkpoint
\* calls: the failed assertion ends the process
SetCheckpointVersion(r) ==
    /\ pc[r] \in {"idle", "returned"}
    /\ \E value \in VersionValues :
          LET res == set_checkpoint_version(version[r], value)
          IN  IF res.ok
              THEN /\ version' = [version EXCEPT ![r] = res.version]
                   /\ UNCHANGED << pc, why >>
              ELSE /\ pc' = [pc EXCEPT ![r] = "fatal"]
                   /\ why' = [why EXCEPT ![r] = ErrVersion]
                   /\ UNCHANGED version
    /\ UNCHANGED << topo, tracker, shards, call, ncalls, colls, local, meta,
                    ret, out, live, args >>

InitVersion ==
    /\ topo = BlobTopology
    /\ tracker = [r \in Ranks |-> TrackerFile(Str(1))]
    /\ \E b \in VersionBlobs : shards = [p \in BlobPaths |-> BlobFile(b)]
    /\ call = NoCall
    /\ ncalls = 0
    /\ pc = [r \in Ranks |-> "idle"]
    /\ colls = [r \in Ranks |-> << >>]
    /\ local = [r \in Ranks |-> << >>]
    /\ meta = [r \in Ranks |-> << >>]
    /\ ret = [r \in Ranks |-> << >>]
    /\ out = [r \in Ranks |-> {}]
    /\ why = [r \in Ranks |-> ""]
    /\ live = [r \in Ranks |-> LiveState(topo, r, FreshProgress, FALSE)]
    /\ version = [r \in Ranks |-> << >>]
    /\ args = [r \in Ranks |-> FreshArgs]

NextVersion ==
    \/ CallLoad
    \/ \E r \in Ranks :
          \/ SetCheckpointVersion(r)
          \/ LoadReadMeta(r) \/ LoadRestore(r) \/ LoadReturn(r)

SpecVersion == InitVersion /\ [][NextVersion]_vars

\* C13: once _CHECKPOINT_VERSION of a process holds a value it holds no other
\* value afterwards, through set_checkpoint_version and load_checkpoint
\* alike; a set with a different value ends the process on the failed
\* assertion and leaves the value, a set with the same value is accepted.
C13_VersionWriteOnce ==
    [][\A r \in Ranks :
          /\ version[r] # << >> => version'[r] = version[r]
          /\ (pc[r] # "fatal" /\ pc'[r] = "fatal" /\ why'[r] = ErrVersion)
                => (version[r] # << >> /\ version'[r] = version[r])
          /\ \A v \in VersionValues :
                /\ set_checkpoint_version(<< v >>, v).ok
                /\ \A w \in VersionValues \ {v} :
                      /\ ~set_checkpoint_version(<< v >>, w).ok
                      /\ set_checkpoint_version(<< v >>, w).version = << v >>
      ]_vars
\* a process whose version a load has set has died on a set of another value
C13_Witness ==
    \E r \in Ranks :
        /\ call.kind = "load" /\ pc[r] = "fatal" /\ why[r] = ErrVersion
        /\ ret[r] # << >> /\ version[r] # << >>

\* the blob's args snapshot differs from the run's args in an attribute that
\* fixes the architecture
ArgsMismatch(r) ==
    /\ "args" \in DOMAIN TheBlob
    /\ "num_layers" \in DOMAIN TheBlob["args"]
    /\ TheBlob["args"].num_layers # args[r].num_layers

\* C14: a load whose blob carries an args snapshot that differs from the
\* run's configuration in a structural field does not get through, and has
\* not loaded the model sub-state.
C14_MismatchIsFatal ==
    \A r \in Ranks :
        ArgsMismatch(r) =>
            /\ ~Restored(r)
            /\ live[r].model = LiveState(topo, r, FreshProgress, FALSE).model

\* ===================================================== the shard paths
\* Jobs of every topology of up to MaxWorld processes: the ranks call
\* get_checkpoint_name, or run save_checkpoint up to the first barrier on an
\* empty root.
MaxWorld == 4
ShardTopologies ==
    { t \in [tp : 1 .. MaxWorld, pp : 1 .. MaxWorld, dp : 1 .. MaxWorld] :
        t.tp * t.pp * t.dp <= MaxWorld }
WorldRanks(t) == 0 .. (t.tp * t.pp * t.dp - 1)
NameCalls ==
    { [kind |-> "name", iteration |-> i, epoch |-> 0,
       o |-> [release |-> rel, complete |-> c], saved |-> << >>] :
        i \in Iterations, rel \in BOOLEAN, c \in BOOLEAN }
SaveCalls ==
    { [kind |-> "save", iteration |-> i, epoch |-> 0, o |-> NoOptions,
       saved |-> << i, 0, FALSE >>] : i \in Iterations }

InitShard ==
    /\ topo \in ShardTopologies
    /\ call \in NameCalls \cup SaveCalls
    /\ ncalls = MaxCalls
    /\ tracker = [r \in WorldRanks(topo) |-> NoTracker]
    /\ shards = << >>
    /\ pc = [r \in WorldRanks(topo) |-> "start"]
    /\ colls = [r \in WorldRanks(topo) |-> << >>]
    /\ local = [r \in WorldRanks(topo) |-> << >>]
    /\ meta = [r \in WorldRanks(topo) |-> << >>]
    /\ ret = [r \in WorldRanks(topo) |-> << >>]
    /\ out = [r \in WorldRanks(topo) |-> {}]
    /\ why = [r \in WorldRanks(topo) |-> ""]
    /\ live = [r \in WorldRanks(topo) |->
                 LiveState(topo, r, ProgressAt(call.iteration, 0), FALSE)]
    /\ version = [r \in WorldRanks(topo) |-> << >>]
    /\ args = [r \in WorldRanks(topo) |-> ArgsAt(call.iteration)]

\* rank r calls get_checkpoint_name(checkpoints_path, iteration, release,
\* complete), once or again
GetName(r) ==
    /\ call.kind = "name" /\ pc[r] \in {"start", "returned"}
    /\ ret' = [ret EXCEPT ![r] =
                 << get_checkpoint_name(topo, r, CkptRoot, call.iteration,
                                        call.o.release, call.o.complete) >>]
    /\ pc' = [pc EXCEPT ![r] = "returned"]
    /\ UNCHANGED << topo, tracker, shards, call, ncalls, colls, local, meta,
                    out, why, live, version, args >>

\* r is a rank of the job
InWorld(r) == r \in WorldRanks(topo)

NextShard ==
    \E r \in 0 .. (MaxWorld - 1) :
        \/ InWorld(r) /\ GetName(r)
        \/ InWorld(r) /\ SaveOpen(r)
        \/ InWorld(r) /\ SaveOpenFail(r)
        \/ InWorld(r) /\ SaveWrite(r)
        \/ InWorld(r) /\ SaveWriteFail(r)
        \/ InWorld(r) /\ SaveSkip(r)

SpecShard == InitShard /\ [][NextShard]_vars

SameCoordinates(r, q) ==
    /\ TensorRank(topo, r) = TensorRank(topo, q)
    /\ PipeRank(topo, r) = PipeRank(topo, q)

\* C15: for a root, a topology, an iteration, a release flag and a complete
\* flag, two ranks get the same path from get_checkpoint_name exactly when
\* they have the same (tensor rank, pipeline rank), and a call gives the path
\* every call with that input gives.
C15_NameInjective ==
    call.kind = "name" =>
        \A r \in DOMAIN pc, q \in DOMAIN pc :
            (ret[r] # << >> /\ ret[q] # << >>) =>
                /\ (ret[r] = ret[q]) <=> SameCoordinates(r, q)
                /\ ret[r] = << get_checkpoint_name(topo, r, CkptRoot,
                                    call.iteration, call.o.release,
                                    call.o.complete) >>
\* two ranks that differ in the pipeline rank only have got their paths, and
\* so have, in a job of pipeline size 1, two ranks of different tensor rank
C15_Witness ==
    /\ call.kind = "name"
    /\ \E r \in DOMAIN pc, q \in DOMAIN pc :
          /\ ret[r] # << >> /\ ret[q] # << >> /\ ret[r] # ret[q]
          /\ topo.tp > 1 /\ topo.pp > 1
          /\ TensorRank(topo, r) = TensorRank(topo, q)
          /\ PipeRank(topo, r) # PipeRank(topo, q)

\* C16: in a save_checkpoint run only ranks of data-parallel rank 0 open a
\* shard file, and the path a rank opens is one no other rank of the run has
\* opened or written.
C16_NoSharedShardPath ==
    [][\A r \in DOMAIN pc :
          (call.kind = "save" /\ pc[r] = "start" /\ pc'[r] = "s_write")
          => /\ DataRank(topo, r) = 0
             /\ SaveName(r) \notin DOMAIN shards
             /\ SaveName(r) \in DOMAIN shards'
      ]_vars
\* two writers that differ in tensor and pipeline rank are writing at once, in
\* a job that has data-parallel replicas or not
C16_Witness ==
    /\ call.kind = "save"
    /\ \E r \in DOMAIN pc, q \in DOMAIN pc :
          /\ pc[r] = "s_write" /\ pc[q] = "s_write"
          /\ TensorRank(topo, r) # TensorRank(topo, q)
          /\ PipeRank(topo, r) # PipeRank(topo, q)

\* ------------------------------------------------- the files under a save
\* a complete tracker record: an iteration number or 'release'
CompleteRecords == {Str(n) : n \in Iterations} \cup {ReleaseText}

\* C17: at every instant the tracker file, where there is one, holds a
\* complete record, the previous one or the new one, also while rank 0
\* updates it and when rank 0 dies in the update.
C17_TrackerAlwaysComplete ==
    \A r \in Ranks : tracker[r].exists => tracker[r].text \in CompleteRecords

\* C18: no step of a save_checkpoint changes or removes a shard file that an
\* earlier save has completely written.
C18_ShardsImmutable ==
    [][\A p \in DOMAIN shards :
          shards[p].kind = "blob" =>
              (p \in DOMAIN shards' /\ shards'[p] = shards[p])
      ]_vars

\* ------------------------------------------------- the RNG step of a load
RngLoadingOn == ~IsRelease /\ ~call.o.finetune /\ ~call.o.no_load_rng
\* one of the five RNG entries is missing, or the tracker mapping is empty
RngBundleBroken(b) ==
    \/ ~(RngKeys \cup {"rng_tracker_states"} \subseteq DOMAIN b)
    \/ b["rng_tracker_states"] = << >>
FreshLive(r) == LiveState(topo, r, FreshProgress, FALSE)
RngUntouched(r) ==
    \A k \in RngKeys \cup {"rng_tracker_states"} : live[r][k] = FreshLive(r)[k]
ExitsWithNoRng(r) ==
    /\ pc[r] \in {"start", "l_reduce", "fatal"}
    /\ pc[r] = "fatal" => why[r] = ErrNoRng /\ ErrNoRng \in Texts(out[r])
\* with RNG loading on (so neither release nor finetune): the steps before the
\* RNG step find in the blob what they read
ReachesRngStep(b) ==
    /\ {"epoch", "model"} \subseteq DOMAIN b
    /\ DOMAIN b \cap {"iteration", "total_iters"} # {}
    /\ \/ call.o.no_load_optim
       \/ /\ call.o.has_optimizer => "optimizer" \in DOMAIN b
          /\ call.o.has_lr_scheduler => "lr_scheduler" \in DOMAIN b

\* C19 as claimed: with RNG loading on, a load exits with the RNG remediation
\* message whenever one of the five RNG entries is missing from the blob or
\* rng_tracker_states is empty; with release, finetune or no_load_rng set, a
\* load leaves every RNG source as it was.
C19_RngBrokenAlwaysRngMessage ==
    \A r \in Ranks :
        /\ (RngLoadingOn /\ RngBundleBroken(TheBlob)) => ExitsWithNoRng(r)
        /\ ~RngLoadingOn => RngUntouched(r)

\* C19 as amended: the same for a load that gets as far as the RNG step.
C19_RngBrokenRngMessageWhenReached ==
    \A r \in Ranks :
        /\ (RngLoadingOn /\ RngBundleBroken(TheBlob) /\ ReachesRngStep(TheBlob))
              => ExitsWithNoRng(r)
        /\ ~RngLoadingOn => RngUntouched(r)
\* a load has exited on an empty rng_tracker_states mapping
C19_Witness ==
    \E r \in Ranks :
        /\ RngLoadingOn /\ pc[r] = "fatal" /\ why[r] = ErrNoRng
        /\ RngKeys \cup {"rng_tracker_states"} \subseteq DOMAIN TheBlob
        /\ TheBlob["rng_tracker_states"] = << >>

\* ------------------------------------------- what an exit leaves restored
RngOrder == << "random_rng_state", "np_rng_state", "torch_rng_state",
               "cuda_rng_state" >>
BlobVersion(b) ==
    IF "checkpoint_version" \in DOMAIN b THEN b["checkpoint_version"]
    ELSE LegacyCheckpointVersion
\* the steps up to the model have acted on r: version, counters, model
RestoredThroughModel(r, b) ==
    /\ version[r] = << BlobVersion(b) >>
    /\ "args" \in DOMAIN b =>
          /\ args[r].consumed_train_samples =
                 GetAttr0(b["args"], "consumed_train_samples")
          /\ args[r].consumed_valid_samples =
                 GetAttr0(b["args"], "consumed_valid_samples")
    /\ "args" \notin DOMAIN b => args[r] = RunArgs
    /\ live[r].model = b["model"]
\* the optimizer step has acted on r as far as it got
OptimizerStepDone(r, b) ==
    (~call.o.no_load_optim) =>
        /\ (call.o.has_optimizer /\ "optimizer" \in DOMAIN b)
              => live[r].optimizer = b["optimizer"]
        /\ (call.o.has_lr_scheduler /\ "lr_scheduler" \in DOMAIN b
                /\ (call.o.has_optimizer => "optimizer" \in DOMAIN b))
              => live[r].lr_scheduler = b["lr_scheduler"]
        /\ (call.o.has_optimizer /\ "optimizer" \notin DOMAIN b)
              => /\ live[r].optimizer = FreshLive(r).optimizer
                 /\ live[r].lr_scheduler = FreshLive(r).lr_scheduler
\* the RNG sources before the first one the blob lacks are overwritten, that
\* one and the later ones are not
RngDoneInOrder(r, b) ==
    \A i \in 1 .. Len(RngOrder) :
        IF \A j \in 1 .. i : RngOrder[j] \in DOMAIN b
        THEN live[r][RngOrder[i]] = b[RngOrder[i]]
        ELSE live[r][RngOrder[i]] = FreshLive(r)[RngOrder[i]]

\* C20: load_checkpoint restores in the order version, epoch, iteration,
\* counters, model, optimizer, LR scheduler, RNG sources one by one, and an
\* exit undoes nothing: at an exit for a missing optimizer, LR-scheduler or
\* RNG entry the version is set, the counters are copied and the model is
\* loaded; at an exit for the LR scheduler the optimizer is loaded; at an
\* exit in the RNG step the optimizer step is done and the sources before the
\* missing one are overwritten, all four at the empty rng_tracker_states
\* exit; and an exit at an earlier step has left the later sub-states alone.
C20_RestoreOrderNoRollback ==
    \A r \in Ranks :
        Exited(r) =>
            /\ why[r] \in {ErrNoOptim, ErrNoRng} =>
                  RestoredThroughModel(r, TheBlob)
            /\ why[r] = ErrNoOptim =>
                  /\ OptimizerStepDone(r, TheBlob)
                  /\ RngUntouched(r)
            /\ why[r] = ErrNoRng =>
                  /\ OptimizerStepDone(r, TheBlob)
                  /\ RngDoneInOrder(r, TheBlob)
                  /\ live[r].rng_tracker_states = FreshLive(r).rng_tracker_states
            /\ why[r] \in {ErrNoEpoch, ErrNoIteration, ErrNoModel} =>
                  /\ version[r] = << BlobVersion(TheBlob) >>
                  /\ live[r] = FreshLive(r)
            /\ why[r] \in {ErrNoEpoch, ErrNoIteration} => args[r] = RunArgs
            /\ (why[r] = ErrNoModel /\ "args" \in DOMAIN TheBlob) =>
                  args[r].consumed_train_samples =
                      GetAttr0(TheBlob["args"], "consumed_train_samples")
\* a load has exited on an empty rng_tracker_states mapping with the model,
\* the optimizer and the four other RNG sources overwritten
C20_Witness ==
    \E r \in Ranks :
        /\ Exited(r) /\ why[r] = ErrNoRng
        /\ RngKeys \cup {"rng_tracker_states", "optimizer"} \subseteq DOMAIN TheBlob
        /\ TheBlob["rng_tracker_states"] = << >>
        /\ call.o.has_optimizer
        /\ live[r].model # FreshLive(r).model
        /\ live[r].optimizer # FreshLive(r).optimizer
        /\ \A k \in RngKeys : live[r][k] = TheBlob[k] /\ live[r][k] # FreshLive(r)[k]
        /\ version[r] # << >>
        /\ args[r] # RunArgs

====
